---- MODULE Spec2Model ----
(***************************************************************************)
(* Model of packages/core/src/tools/ripGrep.ts: one GrepToolInvocation      *)
(* executing one request (execute), the per-target matcher run             *)
(* (performRipgrepSearch), the output parser (parseRipgrepOutput) and the   *)
(* abort signal shared by the whole request.                               *)
(*                                                                         *)
(* Text is a sequence of one-character strings.  Messages are sequences of *)
(* tokens (fixed template pieces and interpolated values).                 *)
(***************************************************************************)
EXTENDS Integers, Sequences, FiniteSets, TLC

\* ------------------------------------------------------------------ bounds
\* The source's cap is 20000 matches; the model scales it down.
CapScale == 3
\* Largest number of configured workspace directories.
MaxRoots == 3
\* Largest number of stdout 'data' chunks one matcher process emits.
MaxStdoutChunks == 2
\* Largest number of stderr 'data' chunks one matcher process emits.
MaxStderrChunks == 1
\* Largest number of lines of a matcher output text handed to the parser.
MaxLines == 2

DEFAULT_TOTAL_MAX_MATCHES == CapScale

\* ------------------------------------------------------------ text helpers
EOL == "\n"

Whitespace == {" ", "\t", "\r", "\n"}

Digits == {"0", "1", "2", "3", "4", "5", "6", "7", "8", "9"}

DigitVal(c) ==
    CASE c = "0" -> 0 [] c = "1" -> 1 [] c = "2" -> 2 [] c = "3" -> 3
      [] c = "4" -> 4 [] c = "5" -> 5 [] c = "6" -> 6 [] c = "7" -> 7
      [] c = "8" -> 8 [] c = "9" -> 9

\* String.prototype.trim
RECURSIVE TrimLeft(_)
TrimLeft(s) ==
    IF s # <<>> /\ Head(s) \in Whitespace THEN TrimLeft(Tail(s)) ELSE s

RECURSIVE TrimRight(_)
TrimRight(s) ==
    IF s # <<>> /\ s[Len(s)] \in Whitespace
    THEN TrimRight(SubSeq(s, 1, Len(s) - 1))
    ELSE s

Trim(s) == TrimRight(TrimLeft(s))

\* Mutant of IndexOf: the last occurrence instead of the first.
IndexOf_Last(s, c, from) ==
    LET I == {i \in from..(Len(s) - 1) : s[i + 1] = c}
    IN  IF I = {} THEN -1 ELSE CHOOSE i \in I : \A j \in I : i >= j

\* String.prototype.indexOf(c, from): 0-based, -1 when absent
IndexOf(s, c, from) ==
    LET I == {i \in from..(Len(s) - 1) : s[i + 1] = c}
    IN  IF I = {} THEN -1 ELSE CHOOSE i \in I : \A j \in I : i <= j

\* String.prototype.substring(a, b), 0-based, b exclusive
Substring(s, a, b) == SubSeq(s, a + 1, b)

\* String.prototype.split on a one-character separator
RECURSIVE SplitAcc(_, _, _, _)
SplitAcc(s, sep, cur, acc) ==
    IF s = <<>> THEN Append(acc, cur)
    ELSE IF Head(s) = sep THEN SplitAcc(Tail(s), sep, <<>>, Append(acc, cur))
    ELSE SplitAcc(Tail(s), sep, Append(cur, Head(s)), acc)

Split(s, sep) == SplitAcc(s, sep, <<>>, <<>>)

\* Buffer.concat(chunks).toString('utf8')
RECURSIVE Concat(_)
Concat(chunks) ==
    IF chunks = <<>> THEN <<>> ELSE Head(chunks) \o Concat(Tail(chunks))

\* parseInt(str, 10): skip leading whitespace, an optional sign, then the
\* longest run of digits; NaN when that run is empty.
RECURSIVE DigitRun(_, _, _)
DigitRun(s, acc, seen) ==
    IF s # <<>> /\ Head(s) \in Digits
    THEN DigitRun(Tail(s), acc * 10 + DigitVal(Head(s)), TRUE)
    ELSE [nan |-> ~seen, val |-> acc]

ParseInt(str) ==
    LET t == TrimLeft(str)
        neg == t # <<>> /\ Head(t) = "-"
        body == IF t # <<>> /\ Head(t) \in {"-", "+"} THEN Tail(t) ELSE t
        r == DigitRun(body, 0, FALSE)
    IN  [nan |-> r.nan, val |-> IF neg THEN 0 - r.val ELSE r.val]

\* ---------------------------------------------------------- output parser
\* One iteration of the for-loop of parseRipgrepOutput: the matches a line
\* contributes (none or one).
parseLine(line) ==
    IF Trim(line) = <<>> THEN <<>>
    ELSE LET firstColonIndex == IndexOf(line, ":", 0)
         IN  IF firstColonIndex = -1 THEN <<>>
             ELSE LET secondColonIndex == IndexOf(line, ":", firstColonIndex + 1)
                  IN  IF secondColonIndex = -1 THEN <<>>
                      ELSE LET absoluteFilePath == Substring(line, 0, firstColonIndex)
                               lineNumberStr ==
                                   Substring(line, firstColonIndex + 1, secondColonIndex)
                               lineContent ==
                                   Substring(line, secondColonIndex + 1, Len(line))
                               lineNumber == ParseInt(lineNumberStr)
                           IN  IF ~lineNumber.nan
                               THEN << [filePath |-> absoluteFilePath,
                                        lineNumber |-> lineNumber.val,
                                        line |-> lineContent] >>
                               ELSE <<>>

RECURSIVE parseLines(_)
parseLines(lines) ==
    IF lines = <<>> THEN <<>>
    ELSE parseLine(Head(lines)) \o parseLines(Tail(lines))

parseRipgrepOutput(output) ==
    IF output = <<>> THEN <<>> ELSE parseLines(Split(output, EOL))

\* ------------------------------------------------------------ path.relative
\* path.relative(from, to) for normalised absolute POSIX paths.
NonEmpty(segs) == SelectSeq(segs, LAMBDA x : x # <<>>)

Segments(p) == NonEmpty(Split(p, "/"))

RECURSIVE CommonPrefixLen(_, _)
CommonPrefixLen(a, b) ==
    IF a # <<>> /\ b # <<>> /\ Head(a) = Head(b)
    THEN 1 + CommonPrefixLen(Tail(a), Tail(b))
    ELSE 0

RECURSIVE Join(_, _)
Join(segs, sep) ==
    IF segs = <<>> THEN <<>>
    ELSE IF Len(segs) = 1 THEN Head(segs)
    ELSE Head(segs) \o <<sep>> \o Join(Tail(segs), sep)

PathRelative(from, to) ==
    LET f == Segments(from)
        t == Segments(to)
        k == CommonPrefixLen(f, t)
        ups == [i \in 1..(Len(f) - k) |-> <<".", ".">>]
    IN  Join(ups \o SubSeq(t, k + 1, Len(t)), "/")

\* ------------------------------------------------------------------ inputs
RootChars == <<"r", "s", "t", "u", "v">>

\* The i-th configured workspace directory: /r, /s, /t, ...
Root(i) == <<"/", RootChars[i]>>

\* workspaceContext.getDirectories(): an ordered list of n directories
Directories(n) == [i \in 1..n |-> Root(i)]

\* config.getTargetDir()
TargetDir == Root(1)

NoPath == <<>>

\* Values of params.path: absent, a file of the first root, the second root.
ScopePaths == {NoPath, <<"/", "r", "/", "a">>, <<"/", "s">>}

NoInclude == ""

\* Values of params.include
Includes == {NoInclude, "*.ts"}

Pattern == "foo"

\* Chunks the matcher may write to stdout: a line of /r/a, and a chunk of two
\* lines, one without any colon and an earlier line of /r/a whose content holds
\* a colon.
StdoutChunks ==
    { <<"/", "r", "/", "a", ":", "3", ":", "x", "\n">>,
      <<"j", "u", "n", "k", "\n",
        "/", "r", "/", "a", ":", "1", ":", "y", ":", "z", "\n">> }

\* Chunks the matcher may write to stderr.
StderrChunks == { <<"E", "!">> }

\* Exit statuses of a matcher that ends by itself, as the template literal
\* prints them; "null" is the status of a process ended by a signal and
\* "-2" the status node reports after a failed spawn.
ExitCodes == {"0", "1", "2"}

\* ------------------------------------------------------------------- state
VARIABLES
    params,       \* [path, include]: the request
    roots,        \* workspaceContext.getDirectories()
    pc,           \* position of execute
    searchPaths,  \* execute: searchPaths
    idx,          \* execute: index of the loop over searchPaths (1-based)
    allMatches,   \* execute: allMatches
    isFile,       \* performRipgrepSearch: isFile of the current call
    children,     \* one record per spawn call: child process, its
                  \* listeners' captured chunks and the call's promise
    aborted,      \* signal.aborted
    response,     \* the ToolResult execute returned
    spawnLog,     \* history: per spawn, signal.aborted and allMatches.length
    discovered,   \* history: every searchResult appended, never sliced
    ensureCalls,  \* history: number of calls of ensureRgPath
    failure,      \* history: the failure that ended the request, if any
    returned      \* history: number of times execute returned or threw

vars == <<params, roots, pc, searchPaths, idx, allMatches, isFile, children,
          aborted, response, spawnLog, discovered, ensureCalls, failure, returned>>

\* ToolResult.error of a result that has none
NoError == [message |-> <<>>, type |-> "none"]

NoResponse ==
    [kind |-> "none",
     llmContent |-> [head |-> <<>>, filter |-> "", blocks |-> <<>>],
     returnDisplay |-> <<>>,
     error |-> NoError]

\* ----------------------------------------------------------------- errors
\* new Error(`ripgrep exited with code ${code}: ${stderrData}`)
ExitError(code, stderrData) ==
    <<"ripgrep exited with code ", code, ": ">> \o stderrData

\* new Error(`Failed to start ripgrep: ${err.message}. Please ensure ...`)
LaunchError(errMessage) ==
    <<"Failed to start ripgrep: ", errMessage,
      ". Please ensure @lvce-editor/ripgrep is properly installed.">>

\* ensureRgPath: throw new Error('Cannot use ripgrep.')
UnavailableError == <<"Cannot use ripgrep.">>

\* the error fs.statSync throws
StatError == <<"ENOENT: no such file or directory, stat">>

\* the error text of a failed resolveToolPath
ResolutionError == <<"Path does not exist">>

\* the message of the error node emits when spawn fails
SpawnErrMessage == "spawn rg ENOENT"

\* ------------------------------------------------------------- rg arguments
\* performRipgrepSearch: excludes, each already written as `!${exclude}`
Excludes ==
    <<"!.git", "!node_modules", "!bower_components", "!*.log", "!*.tmp",
      "!build", "!dist", "!coverage">>

RECURSIVE ExcludeArgs(_)
ExcludeArgs(ex) ==
    IF ex = <<>> THEN <<>>
    ELSE <<"--glob", Head(ex)>> \o ExcludeArgs(Tail(ex))

\* Mutant of rgArgs: the glob filters are passed for a single file too.
rgArgs_AlwaysGlob(pattern, include, file) ==
    <<"--line-number", "--no-heading", "--with-filename", "--ignore-case",
      "--regexp", pattern>>
    \o (IF include # NoInclude THEN <<"--glob", include>> ELSE <<>>)
    \o ExcludeArgs(Excludes)
    \o <<"--threads", "4">>

\* performRipgrepSearch: the argument list handed to spawn, without its last
\* element, the target path (kept beside it in the child record).
rgArgs(pattern, include, file) ==
    <<"--line-number", "--no-heading", "--with-filename", "--ignore-case",
      "--regexp", pattern>>
    \o (IF ~file
        THEN (IF include # NoInclude THEN <<"--glob", include>> ELSE <<>>)
             \o ExcludeArgs(Excludes)
        ELSE <<>>)
    \o <<"--threads", "4">>

\* ------------------------------------------------------------- the report
\* Own property keys of matchesByFile in for-in order: keys that are
\* canonical array indices come first in ascending numeric order, the other
\* keys follow in insertion order.
IsArrayIndex(key) ==
    /\ key # <<>>
    /\ \A i \in 1..Len(key) : key[i] \in Digits
    /\ (Len(key) > 1 => key[1] # "0")

RECURSIVE FirstSeen(_, _)
FirstSeen(matches, seen) ==
    IF matches = <<>> THEN <<>>
    ELSE IF Head(matches).filePath \in seen
         THEN FirstSeen(Tail(matches), seen)
         ELSE <<Head(matches).filePath>>
              \o FirstSeen(Tail(matches), seen \cup {Head(matches).filePath})

RECURSIVE SortKeys(_)
SortKeys(keys) ==
    IF keys = {} THEN <<>>
    ELSE LET k == CHOOSE x \in keys :
                    \A y \in keys : ParseInt(x).val <= ParseInt(y).val
         IN  <<k>> \o SortKeys(keys \ {k})

ForInKeys(matches) ==
    LET inserted == FirstSeen(matches, {})
        indexKeys == {inserted[i] : i \in {j \in 1..Len(inserted) :
                                              IsArrayIndex(inserted[j])}}
    IN  SortKeys(indexKeys)
        \o SelectSeq(inserted, LAMBDA k : ~IsArrayIndex(k))

\* Mutant of InsertSorted: the push without the sort.
InsertSorted_NoSort(sorted, match) == Append(sorted, match)

\* acc[fileKey].push(match); acc[fileKey].sort(by lineNumber): a stable
\* insertion of match after the entries whose lineNumber is not larger.
RECURSIVE InsertSorted(_, _)
InsertSorted(sorted, match) ==
    IF sorted = <<>> THEN <<match>>
    ELSE IF Head(sorted).lineNumber <= match.lineNumber
         THEN <<Head(sorted)>> \o InsertSorted(Tail(sorted), match)
         ELSE <<match>> \o sorted

RECURSIVE FileMatches(_, _)
FileMatches(matches, fileKey) ==
    IF matches = <<>> THEN <<>>
    ELSE LET m == matches[Len(matches)]
             rest == FileMatches(SubSeq(matches, 1, Len(matches) - 1), fileKey)
         IN  IF m.filePath = fileKey THEN InsertSorted(rest, m) ELSE rest

\* One `File:` block: the header and the `L<n>: <trimmed line>` lines.
FileBlock(matches, fileKey) ==
    LET ms == FileMatches(matches, fileKey)
    IN  [file |-> fileKey,
         lines |-> [i \in 1..Len(ms) |->
                       [lineNumber |-> ms[i].lineNumber,
                        text |-> Trim(ms[i].line)]]]

\* Mutant of wasTruncated: `>` instead of `>=`.
wasTruncated_Strict(matchCount, totalMaxMatches) == matchCount > totalMaxMatches

\* const wasTruncated = allMatches.length >= totalMaxMatches
wasTruncated(matchCount, totalMaxMatches) == matchCount >= totalMaxMatches

\* Mutant of catchResult: the error is thrown again instead of returned.
catchResult_Rethrow(errorMessage) ==
    [kind |-> "thrown",
     llmContent |-> [head |-> <<>>, filter |-> "", blocks |-> <<>>],
     returnDisplay |-> <<>>,
     error |-> [message |-> errorMessage, type |-> "uncaught"]]

\* Mutant of catchResult: the error result carries the report of the matches
\* accumulated so far.
catchResult_WithPartial(errorMessage) ==
    [kind |-> "error",
     llmContent |->
         [head |-> <<"Error during grep search operation: ">> \o errorMessage,
          filter |-> "",
          blocks |-> [i \in 1..Len(ForInKeys(allMatches)) |->
                         FileBlock(allMatches, ForInKeys(allMatches)[i])]],
     returnDisplay |-> <<"Error: ">> \o errorMessage,
     error |-> NoError]

\* execute, catch: the thrown error becomes a structured result.
catchResult(errorMessage) ==
    [kind |-> "error",
     llmContent |->
         [head |-> <<"Error during grep search operation: ">> \o errorMessage,
          filter |-> "", blocks |-> <<>>],
     returnDisplay |-> <<"Error: ">> \o errorMessage,
     error |-> NoError]

\* Keys every object literal inherits from Object.prototype: for such a
\* fileKey `acc[fileKey]` is already truthy and is not an array.
InheritedKeys ==
    { <<"c", "o", "n", "s", "t", "r", "u", "c", "t", "o", "r">>,
      <<"h", "a", "s", "O", "w", "n", "P", "r", "o", "p", "e", "r", "t", "y">>,
      <<"i", "s", "P", "r", "o", "t", "o", "t", "y", "p", "e", "O", "f">>,
      <<"p", "r", "o", "p", "e", "r", "t", "y", "I", "s", "E", "n", "u", "m",
         "e", "r", "a", "b", "l", "e">>,
      <<"t", "o", "L", "o", "c", "a", "l", "e", "S", "t", "r", "i", "n", "g">>,
      <<"t", "o", "S", "t", "r", "i", "n", "g">>,
      <<"v", "a", "l", "u", "e", "O", "f">>,
      <<"_", "_", "p", "r", "o", "t", "o", "_", "_">>,
      <<"_", "_", "d", "e", "f", "i", "n", "e", "G", "e", "t", "t", "e", "r", "_", "_">>,
      <<"_", "_", "d", "e", "f", "i", "n", "e", "S", "e", "t", "t", "e", "r", "_", "_">>,
      <<"_", "_", "l", "o", "o", "k", "u", "p", "G", "e", "t", "t", "e", "r", "_", "_">>,
      <<"_", "_", "l", "o", "o", "k", "u", "p", "S", "e", "t", "t", "e", "r", "_", "_">> }

\* The TypeError of `acc[fileKey].push(match)` on an inherited key.
PushError == <<"acc[fileKey].push is not a function">>

\* The reduce throws when a match's file path is an inherited key.
reduceThrows(matches) ==
    \E i \in 1..Len(matches) : matches[i].filePath \in InheritedKeys

\* How the formatting after the loop ends: with a result, or in the catch.
formatOutcome(matches) == IF reduceThrows(matches) THEN "format" ELSE "none"

\* execute, after the loop: the no-match result or the report; an exception
\* of the grouping is caught like every other.
formatResult(matches, totalMaxMatches, include) ==
    IF Len(matches) = 0
    THEN [kind |-> "nomatch",
          llmContent |-> [head |-> <<"No matches found for pattern ">>,
                          filter |-> include,
                          blocks |-> <<>>],
          returnDisplay |-> <<"No matches found">>,
          error |-> NoError]
    ELSE IF reduceThrows(matches) THEN catchResult(PushError)
    ELSE LET matchCount == Len(matches)
             matchTerm == IF matchCount = 1 THEN "match" ELSE "matches"
             keys == ForInKeys(matches)
         IN  [kind |-> "found",
              llmContent |->
                  [head |-> <<"Found ", ToString(matchCount), " ", matchTerm>>
                            \o (IF wasTruncated(matchCount, totalMaxMatches)
                                THEN <<" (results limited to ",
                                       ToString(totalMaxMatches),
                                       " matches for performance)">>
                                ELSE <<>>),
                   filter |-> include,
                   blocks |-> [i \in 1..Len(keys) |->
                                  FileBlock(matches, keys[i])]],
              returnDisplay |->
                  <<"Found ", ToString(matchCount), " ", matchTerm>>
                  \o (IF wasTruncated(matchCount, totalMaxMatches)
                      THEN <<" (limited)">> ELSE <<>>),
              error |-> NoError]

\* execute, failed resolution: the structured result returned at once.
resolutionFailed(resolutionError, errorType) ==
    [kind |-> "error",
     llmContent |-> [head |-> resolutionError, filter |-> "", blocks |-> <<>>],
     returnDisplay |-> <<"Error: ">> \o resolutionError,
     error |-> [message |-> resolutionError, type |-> errorType]]

\* ------------------------------------------------------- the child's promise
\* Mutant of closeOutcome: a signal kill (status null) counts as success.
closeOutcome_NullAsSuccess(code, stdoutData, stderrData) ==
    IF code \in {"0", "null"} THEN [state |-> "resolved", value |-> stdoutData]
    ELSE IF code = "1" THEN [state |-> "resolved", value |-> <<>>]
    ELSE [state |-> "rejected", value |-> ExitError(code, stderrData)]

\* Mutant of closeOutcome: status 1 resolves with the captured stdout.
closeOutcome_OneKeepsStdout(code, stdoutData, stderrData) ==
    IF code \in {"0", "1"} THEN [state |-> "resolved", value |-> stdoutData]
    ELSE [state |-> "rejected", value |-> ExitError(code, stderrData)]

\* Mutant of closeOutcome: exit status 1 settles nothing.
closeOutcome_OneLeftPending(code, stdoutData, stderrData) ==
    IF code = "0" THEN [state |-> "resolved", value |-> stdoutData]
    ELSE IF code = "1" THEN [state |-> "pending", value |-> <<>>]
    ELSE [state |-> "rejected", value |-> ExitError(code, stderrData)]

\* child.on('close'): how the exit status settles the promise.
closeOutcome(code, stdoutData, stderrData) ==
    IF code = "0" THEN [state |-> "resolved", value |-> stdoutData]
    ELSE IF code = "1" THEN [state |-> "resolved", value |-> <<>>]
    ELSE [state |-> "rejected", value |-> ExitError(code, stderrData)]

\* child.on('error'): the promise is rejected with the launch error.
errorOutcome(errMessage) ==
    [state |-> "rejected", value |-> LaunchError(errMessage)]

\* Mutant of settle: a later settlement replaces an earlier one.
settle_LastWins(child, outcome, by) ==
    [child EXCEPT !.promise = outcome.state, !.value = outcome.value,
                  !.settledBy = by]

\* resolve/reject of a promise: only the first settlement counts.
settle(child, outcome, by) ==
    IF child.promise = "pending"
    THEN [child EXCEPT !.promise = outcome.state, !.value = outcome.value,
                       !.settledBy = by]
    ELSE child

\* cleanup: the abort listener of one child; the signal is aborted when it
\* runs.  kill() ends a process that is still running (exit status null) and
\* does nothing to one that has already ended or never started.
cleanup(child, signalAborted) ==
    IF signalAborted /\ child.state = "running"
    THEN [child EXCEPT !.state = "exited", !.code = "null", !.killed = TRUE]
    ELSE child

\* Mutant of awaitDone: the call is not awaited.
awaitDone_NoAwait(child) == TRUE

\* `await` of the promise of the current call: execute goes on once it is
\* settled.
awaitDone(child) == child.promise # "pending"

\* Mutant of capReached: `>` instead of `>=`.
capReached_Strict(matchCount, totalMaxMatches) == matchCount > totalMaxMatches

\* allMatches.length >= totalMaxMatches
capReached(matchCount, totalMaxMatches) == matchCount >= totalMaxMatches

\* Mutant of capSlice: the slice is missing.
capSlice_NoSlice(matches, totalMaxMatches) == matches

\* allMatches.slice(0, totalMaxMatches)
capSlice(matches, totalMaxMatches) ==
    SubSeq(matches, 1, IF Len(matches) < totalMaxMatches
                       THEN Len(matches) ELSE totalMaxMatches)

\* searchResult.forEach(match => match.filePath = path.relative(...))
relativeMatches(matches, targetDir) ==
    [i \in 1..Len(matches) |->
        [matches[i] EXCEPT !.filePath = PathRelative(targetDir, @)]]

\* ------------------------------------------------------------------- Init
Init ==
    /\ params \in [path : ScopePaths, include : Includes]
    /\ roots \in {Directories(n) : n \in 0..MaxRoots}
    /\ pc = "start"
    /\ searchPaths = <<>>
    /\ idx = 1
    /\ allMatches = <<>>
    /\ isFile = FALSE
    /\ children = <<>>
    /\ aborted = FALSE
    /\ response = NoResponse
    /\ spawnLog = <<>>
    /\ discovered = <<>>
    /\ ensureCalls = 0
    /\ failure = "none"
    /\ returned = 0

\* execute returns `result`.
Return(result, why) ==
    /\ response' = result
    /\ failure' = why
    /\ returned' = returned + 1
    /\ pc' = "done"

\* ---------------------------------------------------------------- execute
\* execute, lines 91-120 up to the first await.
execute_begin ==
    /\ pc = "start"
    /\ IF params.path # NoPath
       THEN /\ pc' = "resolving"
            /\ UNCHANGED searchPaths
       ELSE /\ pc' = "loop"
            /\ searchPaths' = roots
    /\ UNCHANGED <<params, roots, idx, allMatches, isFile, children, aborted,
                   response, spawnLog, discovered, ensureCalls, failure, returned>>

\* Mutant of resolveToolPath_return: the failure is not returned and the
\* unresolved path is searched.
resolveToolPath_return_NoShortCircuit ==
    /\ pc = "resolving"
    /\ \E success \in BOOLEAN :
          /\ searchPaths' = <<params.path>>
          /\ pc' = "loop"
          /\ failure' = IF success THEN failure ELSE "resolution"
          /\ UNCHANGED <<response, returned>>
    /\ UNCHANGED <<params, roots, idx, allMatches, isFile, children, aborted,
                   spawnLog, discovered, ensureCalls>>

\* resolveToolPath returns: a failure is returned at once, a success gives
\* the single search path.
resolveToolPath_return ==
    /\ pc = "resolving"
    /\ \E success \in BOOLEAN :
          IF ~success
          THEN /\ Return(resolutionFailed(ResolutionError, "PATH_NOT_FOUND"),
                         "resolution")
               /\ UNCHANGED searchPaths
          ELSE /\ searchPaths' = <<params.path>>
               /\ pc' = "loop"
               /\ UNCHANGED <<response, failure, returned>>
    /\ UNCHANGED <<params, roots, idx, allMatches, isFile, children, aborted,
                   spawnLog, discovered, ensureCalls>>

\* fs.statSync(absolutePath): it throws, or tells a file from a directory.
\* A workspace directory is a directory; a scope path may be either.
StatOutcomes(path) ==
    IF path = NoPath THEN {"directory", "throw"}
    ELSE {"file", "directory", "throw"}

\* The head of the for-loop.  When the paths are exhausted the result is
\* formatted and returned; otherwise performRipgrepSearch starts: statSync
\* (which may throw) and the argument list, up to `await ensureRgPath()`.
loop_next ==
    /\ pc = "loop"
    /\ IF idx > Len(searchPaths)
       THEN /\ Return(formatResult(allMatches, DEFAULT_TOTAL_MAX_MATCHES,
                                   params.include),
                       formatOutcome(allMatches))
            /\ UNCHANGED <<isFile, ensureCalls>>
       ELSE \E stat \in StatOutcomes(params.path) :
               IF stat = "throw"
               THEN /\ Return(catchResult(StatError), "stat")
                    /\ UNCHANGED <<isFile, ensureCalls>>
               ELSE /\ isFile' = (stat = "file")
                    /\ ensureCalls' = ensureCalls + 1
                    /\ pc' = "ensuring"
                    /\ UNCHANGED <<response, failure, returned>>
    /\ UNCHANGED <<params, roots, searchPaths, idx, allMatches, children,
                   aborted, spawnLog, discovered>>

\* The child record spawn creates; the abort listener is registered and the
\* promise of the call is pending.  A failed spawn leaves a child that will
\* emit 'error'.
newChild(target, args, spawned) ==
    [target |-> target, args |-> args, spawned |-> spawned,
     state |-> IF spawned THEN "running" ELSE "failing",
     code |-> "", stdoutChunks |-> <<>>, stderrChunks |-> <<>>,
     listening |-> TRUE, killed |-> FALSE,
     promise |-> "pending", value |-> <<>>, settledBy |-> "none"]

\* ensureRgPath returns or throws; on return the promise executor runs:
\* spawn and the registration of the listeners.
ensureRgPath_return ==
    /\ pc = "ensuring"
    /\ \E available \in BOOLEAN :
          IF ~available
          THEN /\ Return(catchResult(UnavailableError), "unavailable")
               /\ UNCHANGED <<children, spawnLog>>
          ELSE \E spawned \in BOOLEAN :
                  /\ children' = Append(children,
                         newChild(searchPaths[idx],
                                  rgArgs(Pattern, params.include, isFile),
                                  spawned))
                  /\ spawnLog' = Append(spawnLog,
                         [target |-> searchPaths[idx],
                          aborted |-> aborted,
                          count |-> Len(allMatches)])
                  /\ pc' = "awaiting"
                  /\ UNCHANGED <<response, failure, returned>>
    /\ UNCHANGED <<params, roots, searchPaths, idx, allMatches, isFile,
                   aborted, discovered, ensureCalls>>

\* ------------------------------------------------------- the child process
execVars == <<params, roots, pc, searchPaths, idx, allMatches, isFile,
              response, spawnLog, discovered, ensureCalls, failure, returned>>

\* child.stdout.on('data'): a running matcher writes a chunk to stdout.
stdout_data ==
    \E i \in 1..Len(children) : \E chunk \in StdoutChunks :
        /\ children[i].state = "running"
        /\ Len(children[i].stdoutChunks) < MaxStdoutChunks
        /\ children' = [children EXCEPT ![i].stdoutChunks = Append(@, chunk)]
        /\ UNCHANGED <<execVars, aborted>>

\* child.stderr.on('data'): a running matcher writes a chunk to stderr.
stderr_data ==
    \E i \in 1..Len(children) : \E chunk \in StderrChunks :
        /\ children[i].state = "running"
        /\ Len(children[i].stderrChunks) < MaxStderrChunks
        /\ children' = [children EXCEPT ![i].stderrChunks = Append(@, chunk)]
        /\ UNCHANGED <<execVars, aborted>>

\* The matcher process ends by itself with an exit status.
child_exit ==
    \E i \in 1..Len(children) : \E code \in ExitCodes :
        /\ children[i].state = "running"
        /\ children' = [children EXCEPT ![i].state = "exited",
                                        ![i].code = code]
        /\ UNCHANGED <<execVars, aborted>>

\* child.on('error'): the spawn failed; the listener is removed and the
\* promise rejected.  Node emits 'close' afterwards with the negative status.
child_error ==
    \E i \in 1..Len(children) :
        /\ children[i].state = "failing"
        /\ children' = [children EXCEPT
               ![i] = settle([@ EXCEPT !.state = "errored", !.code = "-2",
                                       !.listening = FALSE],
                             errorOutcome(SpawnErrMessage), "error")]
        /\ UNCHANGED <<execVars, aborted>>

\* child.on('close'): the listener is removed and the promise settled from
\* the exit status and the captured chunks.
child_close ==
    \E i \in 1..Len(children) :
        /\ children[i].state \in {"exited", "errored"}
        /\ children' = [children EXCEPT
               ![i] = settle([@ EXCEPT !.state = "closed",
                                       !.listening = FALSE],
                             closeOutcome(@.code, Concat(@.stdoutChunks),
                                          Concat(@.stderrChunks)),
                             "close")]
        /\ UNCHANGED <<execVars, aborted>>

\* The caller aborts the signal while the request is in progress: every
\* registered `cleanup` listener runs once.
abort ==
    /\ ~aborted
    /\ pc # "done"
    /\ aborted' = TRUE
    /\ children' = [i \in 1..Len(children) |->
                       IF children[i].listening
                       THEN [cleanup(children[i], TRUE)
                                EXCEPT !.listening = FALSE]
                       ELSE children[i]]
    /\ UNCHANGED execVars

\* Which failure a rejected call stands for.
rejectionKind(child) ==
    IF child.settledBy = "error" THEN "launch"
    ELSE IF child.killed THEN "cancel" ELSE "exit"

\* Once execute has resumed, nothing reads the call's settled value, the
\* chunk arrays of the promise executor or the child's exit status again:
\* the model drops them.
consumed(child) ==
    [child EXCEPT !.value = <<>>,
                  !.code = IF child.state = "closed" THEN "" ELSE @,
                  !.stdoutChunks = <<>>, !.stderrChunks = <<>>]

\* Mutant of onRejected: a rejected call is tried again.
onRejected_Retry(child) ==
    /\ pc' = "loop"
    /\ UNCHANGED <<response, failure, returned, allMatches, idx, discovered>>

\* execute, catch: the rejection of the awaited call is returned as an error
\* result; the loop is left.
onRejected(child) ==
    /\ Return(catchResult(child.value), rejectionKind(child))
    /\ UNCHANGED <<allMatches, idx, discovered>>

\* execute resumes after `await performRipgrepSearch(...)`: a rejection is
\* caught and returned as an error result; a resolution is parsed, made
\* relative, appended and capped, and the loop goes on or breaks.
await_resume ==
    /\ pc = "awaiting"
    /\ LET child == children[Len(children)]
       IN  /\ awaitDone(child)
           /\ IF child.promise = "rejected"
              THEN onRejected(child)
              ELSE LET searchResult ==
                           relativeMatches(parseRipgrepOutput(child.value),
                                           TargetDir)
                       appended == allMatches \o searchResult
                   IN  /\ discovered' = discovered \o searchResult
                       /\ IF capReached(Len(appended), DEFAULT_TOTAL_MAX_MATCHES)
                          THEN LET retained ==
                                       capSlice(appended,
                                                DEFAULT_TOTAL_MAX_MATCHES)
                               IN  /\ allMatches' = retained
                                   /\ Return(formatResult(retained,
                                                 DEFAULT_TOTAL_MAX_MATCHES,
                                                 params.include),
                                             formatOutcome(retained))
                               /\ UNCHANGED idx
                          ELSE /\ allMatches' = appended
                               /\ idx' = idx + 1
                               /\ pc' = "loop"
                               /\ UNCHANGED <<response, failure, returned>>
    /\ children' = [children EXCEPT ![Len(children)] = consumed(@)]
    /\ UNCHANGED <<params, roots, searchPaths, isFile, aborted, spawnLog,
                   ensureCalls>>

Next ==
    \/ execute_begin
    \/ resolveToolPath_return
    \/ loop_next
    \/ ensureRgPath_return
    \/ stdout_data
    \/ stderr_data
    \/ child_exit
    \/ child_error
    \/ child_close
    \/ abort
    \/ await_resume

Spec == Init /\ [][Next]_vars

\* The synchronous steps of execute, and the returns of scope resolution and
\* of matcher provisioning.
execute_step ==
    \/ execute_begin
    \/ resolveToolPath_return
    \/ loop_next
    \/ ensureRgPath_return

\* The continuation of `await performRipgrepSearch(...)` can run: execute is
\* at the await and the promise is settled.  This is ENABLED await_resume,
\* whose other conjuncts only assign.
resumable == pc = "awaiting" /\ awaitDone(children[Len(children)])

\* WF_vars(await_resume), with its ENABLED written as resumable: the event
\* loop runs the continuation of a settled promise.
ResumeFairness == <>[]resumable => []<><<await_resume>>_vars

\* Every started step of execute is run, scope resolution and matcher
\* provisioning return, and every matcher process ends: a running one
\* exits, a failed spawn emits 'error', and 'close' follows either.  The
\* caller need not abort and the matcher need not write output.
Fairness ==
    /\ WF_vars(execute_step)
    /\ ResumeFairness
    /\ WF_vars(child_exit)
    /\ WF_vars(child_error)
    /\ WF_vars(child_close)

SpecLive == Init /\ [][Next]_vars /\ Fairness

\* ------------------------------------------- the output parser on its own
\* Fields of the lines a matcher output text is made of.
ParsePaths == { <<"/", "r", "/", "a">>, <<"7">> }

ParseNumbers ==
    { <<"3">>, <<"1", "2">>, <<"0">>, <<"-", "2">>, <<"1", "x">>, <<"x">> }

ParseContents ==
    { <<"x">>, <<"3", ":", "x">>, <<" ", "y", ":", "z", " ">> }

\* Lines of a matcher output text: three colon-separated fields, and lines
\* with no colon, with one colon, and blank ones.
ParseLines ==
    { p \o <<":">> \o n \o <<":">> \o c :
          p \in ParsePaths, n \in ParseNumbers, c \in ParseContents }
    \cup { <<"j", "u", "n", "k">>, <<"/", "r", "/", "a", ":", "3">>,
           <<>>, <<" ">> }

\* Output texts of up to MaxLines lines, each written with its line end.
OutputLines ==
    UNION { [1..n -> ParseLines] : n \in 0..MaxLines }

\* performRipgrepSearch has been resumed by a matcher that exited with status
\* 0: its promise is resolved with the stdout text, each line of it having
\* arrived as one chunk.
Init_Parse ==
    /\ params = [path |-> NoPath, include |-> NoInclude]
    /\ roots = Directories(1)
    /\ pc = "parse"
    /\ searchPaths = roots
    /\ idx = 1
    /\ allMatches = <<>>
    /\ isFile = FALSE
    /\ \E lines \in OutputLines :
          LET chunks == [i \in 1..Len(lines) |-> lines[i] \o <<EOL>>]
          IN  children =
                  << [newChild(Root(1), rgArgs(Pattern, NoInclude, FALSE), TRUE)
                         EXCEPT !.state = "closed", !.code = "0",
                                !.stdoutChunks = chunks,
                                !.promise = "resolved",
                                !.value = Concat(chunks),
                                !.settledBy = "close"] >>
    /\ aborted = FALSE
    /\ response = NoResponse
    /\ spawnLog = <<[target |-> Root(1), aborted |-> FALSE, count |-> 0]>>
    /\ discovered = <<>>
    /\ ensureCalls = 1
    /\ failure = "none"
    /\ returned = 0

\* performRipgrepSearch, line 348: the resolved output is parsed.
parseRipgrepOutput_call ==
    /\ pc = "parse"
    /\ discovered' = parseRipgrepOutput(children[Len(children)].value)
    /\ pc' = "parsed"
    /\ UNCHANGED <<params, roots, searchPaths, idx, allMatches, isFile,
                   children, aborted, response, spawnLog, ensureCalls,
                   failure, returned>>

Next_Parse == parseRipgrepOutput_call

SpecParse == Init_Parse /\ [][Next_Parse]_vars

\* ------------------------------------------------ the report on its own
\* Files the matcher reports, below the target directory: a plain name, two
\* names written as non-negative integers, and a name every object inherits.
FormatPaths ==
    { <<"/", "r", "/", "a">>, <<"/", "r", "/", "7">>,
      <<"/", "r", "/", "1", "0">>,
      <<"/", "r", "/", "t", "o", "S", "t", "r", "i", "n", "g">> }

FormatNumbers == { <<"1">>, <<"2">> }

FormatContents == { <<"x">>, <<" ", "y">> }

FormatLines ==
    { p \o <<":">> \o n \o <<":">> \o c :
          p \in FormatPaths, n \in FormatNumbers, c \in FormatContents }

\* execute awaits the search of its only target; the matcher has exited with
\* status 0 and the call is resolved with up to MaxLines lines.
Init_Format ==
    /\ params = [path |-> NoPath, include |-> NoInclude]
    /\ roots = Directories(1)
    /\ pc = "awaiting"
    /\ searchPaths = roots
    /\ idx = 1
    /\ allMatches = <<>>
    /\ isFile = FALSE
    /\ \E lines \in UNION { [1..n -> FormatLines] : n \in 0..MaxLines } :
          LET chunks == [i \in 1..Len(lines) |-> lines[i] \o <<EOL>>]
          IN  children =
                  << [newChild(Root(1), rgArgs(Pattern, NoInclude, FALSE), TRUE)
                         EXCEPT !.state = "closed", !.code = "0",
                                !.stdoutChunks = chunks,
                                !.promise = "resolved",
                                !.value = Concat(chunks),
                                !.settledBy = "close"] >>
    /\ aborted = FALSE
    /\ response = NoResponse
    /\ spawnLog = <<[target |-> Root(1), aborted |-> FALSE, count |-> 0]>>
    /\ discovered = <<>>
    /\ ensureCalls = 1
    /\ failure = "none"
    /\ returned = 0

Next_Format ==
    \/ await_resume
    \/ loop_next

SpecFormat == Init_Format /\ [][Next_Format]_vars

\* ------------------------------------------------------- claim vocabulary
cap == DEFAULT_TOTAL_MAX_MATCHES

\* The status string has the shape `Error: <message>`.
IsErrorResult(r) ==
    /\ r.kind = "error"
    /\ Len(r.returnDisplay) >= 2
    /\ r.returnDisplay[1] = "Error: "

\* The status string ends with the `(limited)` suffix.
IsLimited(r) ==
    r.returnDisplay # <<>> /\ r.returnDisplay[Len(r.returnDisplay)] = " (limited)"

\* The report's summary sentence carries the capped note.
HasCapNote(r) ==
    \E k \in 1..Len(r.llmContent.head) :
        r.llmContent.head[k] = " (results limited to "

RECURSIVE LineCount(_)
LineCount(blocks) ==
    IF blocks = <<>> THEN 0
    ELSE Len(Head(blocks).lines) + LineCount(Tail(blocks))

\* Number of match lines the report prints.
ReportedLines(r) == LineCount(r.llmContent.blocks)

\* sub occurs in msg as a contiguous piece.
Contains(msg, sub) ==
    \/ sub = <<>>
    \/ \E k \in 1..(Len(msg) - Len(sub) + 1) :
          SubSeq(msg, k, k + Len(sub) - 1) = sub

Succeeded == pc = "done" /\ response.kind \in {"found", "nomatch"}

\* ------------------------------------------------------------------ claims
\* C1: when the signal is aborted while a matcher process is running, that
\* process is terminated (it ends with status null), and a request one of
\* whose processes was killed by the abort ends with an error result that
\* carries no match, never with a report.
C1_CancelWhileRunningFails ==
    [][ /\ \A i \in 1..Len(children) :
              (~aborted /\ aborted' /\ children[i].state = "running")
              => /\ children'[i].state = "exited"
                 /\ children'[i].code = "null"
                 /\ children'[i].killed
        /\ (pc' = "done" /\ \E i \in 1..Len(children') : children'[i].killed)
           => /\ IsErrorResult(response')
              /\ response'.llmContent.blocks = <<>>
              /\ failure' = "cancel" ]_vars

\* C1 witness: the request has ended after the abort killed the matcher of a
\* later target, matches of an earlier target having been accumulated.
C1_Witness ==
    /\ pc = "done"
    /\ allMatches # <<>>
    /\ Len(children) >= 2
    /\ children[Len(children)].killed
    /\ IsErrorResult(response)

\* C2 (as claimed): no matcher process is spawned once the signal is aborted.
C2_NoSpawnAfterAbort ==
    \A k \in 1..Len(spawnLog) : ~spawnLog[k].aborted

\* C3: a returned result holds at most totalCap matches, and the accumulated
\* count is below totalCap whenever a target's search is started.
C3_CapInvariant ==
    /\ Succeeded => /\ Len(allMatches) <= cap
                    /\ ReportedLines(response) = Len(allMatches)
    /\ \A k \in 1..Len(spawnLog) : spawnLog[k].count < cap

\* C3 witness: a report of exactly totalCap matches is returned after more
\* than totalCap were found, the last target having started below the cap.
C3_Witness ==
    /\ Succeeded
    /\ Len(discovered) > cap
    /\ Len(allMatches) = cap
    /\ Len(spawnLog) >= 2
    /\ spawnLog[Len(spawnLog)].count > 0

\* C4: once the accumulated count reaches totalCap after a target's
\* contribution, the request has returned exactly the first totalCap matches
\* in discovery order, marked truncated, and no later target is searched.
C4_CapCrossingStops ==
    Len(discovered) >= cap
    => /\ pc = "done"
       /\ response.kind = "found"
       /\ allMatches = SubSeq(discovered, 1, cap)
       /\ ReportedLines(response) = cap
       /\ IsLimited(response)
       /\ HasCapNote(response)
       /\ Len(spawnLog) = idx
       /\ ensureCalls = idx

\* C4 witness: the second target crosses the cap with matches to spare and a
\* third target is left unsearched.
C4_Witness ==
    /\ pc = "done"
    /\ Len(discovered) > cap
    /\ idx = 2
    /\ Len(searchPaths) >= 3
    /\ Len(spawnLog) = 2
    /\ IsLimited(response)

\* C5: a successful response reports truncation, in the report and in the
\* status, exactly when the count before capping reached totalCap.
C5_TruncationFlag ==
    Succeeded
    => /\ IsLimited(response) <=> Len(discovered) >= cap
       /\ HasCapNote(response) <=> Len(discovered) >= cap

\* C5 witness: exactly totalCap matches were found, nothing was dropped, and
\* the response is marked limited.
C5_Witness ==
    /\ Succeeded
    /\ Len(discovered) = cap
    /\ allMatches = discovered
    /\ IsLimited(response)
    /\ HasCapNote(response)

\* C6: on 'close', status 0 resolves the run with the whole captured stdout,
\* status 1 resolves it with empty output whatever stdout holds, and any
\* other status leaves it rejected with a message that carries the captured
\* stderr; a resolved run adds exactly the parsed matches and is no failure.
C6_ExitStatusMapping ==
    [][ /\ \A i \in 1..Len(children) :
              (children[i].state \in {"exited", "errored"}
               /\ children'[i].state = "closed")
              => LET c == children[i]
                     d == children'[i]
                 IN  /\ c.code = "0"
                        => /\ d.promise = "resolved"
                           /\ d.value = Concat(c.stdoutChunks)
                     /\ c.code = "1"
                        => d.promise = "resolved" /\ d.value = <<>>
                     /\ c.code \notin {"0", "1"}
                        => /\ d.promise = "rejected"
                           /\ Contains(d.value, Concat(c.stderrChunks))
        /\ (pc = "awaiting" /\ pc' # "awaiting")
           => LET c == children[Len(children)]
              IN  /\ c.code = "1"
                     => discovered' = discovered /\ failure' = "none"
                  /\ c.code = "0"
                     => /\ failure' = "none"
                        /\ Len(discovered') =
                             Len(discovered) + Len(parseRipgrepOutput(c.value))
                  /\ c.code \notin {"0", "1"}
                     => /\ failure' # "none"
                        /\ response'.returnDisplay = <<"Error: ">> \o c.value
      ]_vars

\* C6 witness: a run that wrote to stdout has closed with status 1 and is
\* resolved with empty output.
C6_Witness ==
    /\ pc = "awaiting"
    /\ Len(children) = 2
    /\ children[2].state = "closed"
    /\ children[2].code = "1"
    /\ children[2].stdoutChunks # <<>>
    /\ children[2].promise = "resolved"
    /\ children[2].value = <<>>

\* C7: every failure ends the request with a structured result whose status
\* is `Error: <message>`, the message being that of the failure; execute
\* returns once and never throws.
C7_FailuresContained ==
    /\ pc = "done" => response.kind \in {"error", "found", "nomatch"}
                      /\ returned = 1
    /\ failure # "none"
       => /\ pc = "done"
          /\ IsErrorResult(response)
          /\ LET message == Tail(response.returnDisplay)
             IN  /\ failure = "resolution" => message = ResolutionError
                 /\ failure = "stat" => message = StatError
                 /\ failure = "unavailable" => message = UnavailableError
                 /\ failure = "launch" => message = LaunchError(SpawnErrMessage)
                 /\ failure \in {"exit", "cancel"}
                    => message[1] = "ripgrep exited with code "

\* C7 witness: the matcher of a second target could not be launched and the
\* request returned the error result.
C7_Witness ==
    /\ pc = "done"
    /\ failure = "launch"
    /\ Len(children) = 2
    /\ IsErrorResult(response)

\* C8: a failed scope resolution ends the request at once with a structured
\* error result; the matcher is neither provisioned nor spawned.
C8_ResolutionFailureShortCircuits ==
    failure = "resolution"
    => /\ pc = "done"
       /\ IsErrorResult(response)
       /\ response.error.message = ResolutionError
       /\ ensureCalls = 0
       /\ children = <<>>
       /\ spawnLog = <<>>

\* C8 witness: the resolution of a given scope path failed and the request
\* has returned.
C8_Witness ==
    /\ params.path # NoPath
    /\ failure = "resolution"
    /\ pc = "done"
    /\ returned = 1

\* C9: at most one matcher process is alive, every process but the latest
\* has closed, and the processes were started for the search paths in their
\* configured order.
C9_StrictlySequential ==
    /\ Cardinality({i \in 1..Len(children) :
                       children[i].state \in {"running", "exited"}}) <= 1
    /\ \A i \in 1..(Len(children) - 1) : children[i].state = "closed"
    /\ Len(spawnLog) <= Len(searchPaths)
    /\ \A k \in 1..Len(spawnLog) : spawnLog[k].target = searchPaths[k]
    /\ (params.path = NoPath /\ pc # "start") => searchPaths = roots

\* C9 witness: the process of the third workspace directory runs after the
\* processes of the first two have closed.
C9_Witness ==
    /\ Len(children) = 3
    /\ children[3].state = "running"
    /\ children[3].target = roots[3]
    /\ children[1].state = "closed"
    /\ children[2].state = "closed"

\* C10: a process is never spawned twice for one target; once a call is
\* rejected or the request has failed, nothing more is provisioned or
\* spawned and the result does not change; a failure is returned once, as an
\* error result.
C10_NoRetry ==
    [][ /\ spawnLog' # spawnLog
           => \A k \in 1..Len(spawnLog) :
                 spawnLog[k].target # spawnLog'[Len(spawnLog')].target
        /\ ((\E i \in 1..Len(children) : children[i].promise = "rejected")
            \/ failure # "none")
           => /\ spawnLog' = spawnLog
              /\ ensureCalls' = ensureCalls
        /\ failure # "none"
           => /\ response' = response
              /\ returned' = returned
              /\ failure' = failure
        /\ failure' # "none"
           => returned' = 1 /\ IsErrorResult(response') ]_vars

\* C10 witness: the second of three targets failed with exit status 2; the
\* request returned the failure and the third target was never started.
C10_Witness ==
    /\ pc = "done"
    /\ failure = "exit"
    /\ Len(searchPaths) = 3
    /\ Len(spawnLog) = 2
    /\ ensureCalls = 2
    /\ returned = 1

\* C11: a call whose spawn failed is rejected with the launch error, which
\* is no exit-status error; a 'close' of the same child leaves that outcome
\* in place, and the request returns the launch error.
C11_LaunchFailureDistinct ==
    /\ \A i \in 1..Len(children) :
          (~children[i].spawned /\ children[i].state \in {"errored", "closed"})
          => /\ children[i].promise = "rejected"
             /\ (pc = "awaiting"
                 => /\ children[i].value = LaunchError(SpawnErrMessage)
                    /\ children[i].value[1] # "ripgrep exited with code ")
    /\ (pc = "done" /\ children # <<>> /\ ~children[Len(children)].spawned)
       => /\ response.returnDisplay = <<"Error: ">> \o LaunchError(SpawnErrMessage)
          /\ response.returnDisplay[2] # "ripgrep exited with code "
          /\ failure = "launch"

\* C11 witness: the child whose spawn failed has emitted 'error' and then
\* 'close', and the request has returned the launch error.
C11_Witness ==
    /\ pc = "done"
    /\ Len(children) = 2
    /\ ~children[2].spawned
    /\ children[2].state = "closed"
    /\ children[2].code = "-2"
    /\ failure = "launch"
    /\ response.returnDisplay[2] = "Failed to start ripgrep: "

\* C12 (as claimed): a request ended by the abort killing the matcher is not
\* reported as an error, and in particular not with the exit-status message
\* of a matcher runtime failure.
C12_CancelIsNotAnError ==
    (pc = "done" /\ \E i \in 1..Len(children) : children[i].killed)
    => /\ response.kind # "error"
       /\ ~Contains(response.returnDisplay, <<"ripgrep exited with code ">>)

\* Fields of a line as the output format defines them: the first colon ends
\* the file path, the second ends the line number, the rest is the content.
Colons(line) == {i \in 1..Len(line) : line[i] = ":"}

FirstColon(line) == CHOOSE i \in Colons(line) : \A j \in Colons(line) : i <= j

SecondColon(line) ==
    LET rest == Colons(line) \ {FirstColon(line)}
    IN  CHOOSE i \in rest : \A j \in rest : i <= j

FieldPath(line) == SubSeq(line, 1, FirstColon(line) - 1)

FieldNumber(line) == SubSeq(line, FirstColon(line) + 1, SecondColon(line) - 1)

FieldContent(line) == SubSeq(line, SecondColon(line) + 1, Len(line))

IsDecimal(s) == s # <<>> /\ \A i \in 1..Len(s) : s[i] \in Digits

RECURSIVE DecimalValue(_)
DecimalValue(s) ==
    IF s = <<>> THEN 0
    ELSE 10 * DecimalValue(SubSeq(s, 1, Len(s) - 1)) + DigitVal(s[Len(s)])

\* A base-10 integer: decimal digits, possibly after a minus sign.
IsInteger(s) ==
    IF s # <<>> /\ s[1] = "-" THEN IsDecimal(Tail(s)) ELSE IsDecimal(s)

IntegerValue(s) ==
    IF s[1] = "-" THEN 0 - DecimalValue(Tail(s)) ELSE DecimalValue(s)

HasFields(line) == Cardinality(Colons(line)) >= 2

WellFormed(line) == HasFields(line) /\ IsDecimal(FieldNumber(line))

FieldsOf(line) ==
    [filePath |-> FieldPath(line),
     lineNumber |-> IntegerValue(FieldNumber(line)),
     line |-> FieldContent(line)]

\* The lines of the parsed text, without their line ends.
InputLines ==
    LET chunks == children[1].stdoutChunks
    IN  [i \in 1..Len(chunks) |-> SubSeq(chunks[i], 1, Len(chunks[i]) - 1)]

\* The matches of the lines that have both colons and an integer between
\* them, in the order of the lines.
RECURSIVE KeptMatches(_)
KeptMatches(lines) ==
    IF lines = <<>> THEN <<>>
    ELSE (IF HasFields(Head(lines)) /\ IsInteger(FieldNumber(Head(lines)))
          THEN <<FieldsOf(Head(lines))>> ELSE <<>>)
         \o KeptMatches(Tail(lines))

\* C13: when every line of the text is well-formed, the parser returns one
\* match per line, in the order of the lines, whose filePath, lineNumber and
\* line are the three fields of the line; the content keeps its colons.
C13_ParserRoundTrip ==
    (pc = "parsed" /\ \A i \in 1..Len(InputLines) : WellFormed(InputLines[i]))
    => /\ Len(discovered) = Len(InputLines)
       /\ \A i \in 1..Len(InputLines) :
             /\ discovered[i].filePath = FieldPath(InputLines[i])
             /\ discovered[i].lineNumber = DecimalValue(FieldNumber(InputLines[i]))
             /\ discovered[i].line = FieldContent(InputLines[i])

\* C13 witness: two different well-formed lines have been parsed, the first
\* with a content that holds a colon and a two-digit line number.
C13_Witness ==
    /\ pc = "parsed"
    /\ Len(InputLines) = 2
    /\ InputLines[1] # InputLines[2]
    /\ \A i \in 1..2 : WellFormed(InputLines[i])
    /\ Colons(FieldContent(InputLines[1])) # {}
    /\ discovered[1].lineNumber = 12
    /\ Len(discovered) = 2

\* C14 (as claimed): the parser returns exactly the matches of the lines that
\* have both colons and a base-10 integer between them, in their order; every
\* other line is dropped.
C14_TolerantParsing ==
    pc = "parsed" => discovered = KeptMatches(InputLines)

\* C15 (as claimed): every match the parser returns has lineNumber >= 1.
C15_LineNumberPositive ==
    pc = "parsed" => \A i \in 1..Len(discovered) : discovered[i].lineNumber >= 1

\* The files of the blocks of a report, in the order of the blocks.
BlockFiles(r) ==
    [k \in 1..Len(r.llmContent.blocks) |-> r.llmContent.blocks[k].file]

\* The printed form of a match: its line number and trimmed text.
Printed(match) == [lineNumber |-> match.lineNumber, text |-> Trim(match.line)]

\* C16: in a report, the lines of each block are in non-decreasing order of
\* line number, every file of a retained match has exactly one block, and
\* every retained match is printed in the block of its file as often as it
\* occurs, and nowhere else.
C16_WithinFileOrder ==
    (pc = "done" /\ response.kind = "found")
    => LET blocks == response.llmContent.blocks
       IN  /\ \A k \in 1..Len(blocks) : \A i, j \in 1..Len(blocks[k].lines) :
                 i < j => blocks[k].lines[i].lineNumber
                              <= blocks[k].lines[j].lineNumber
           /\ \A k, l \in 1..Len(blocks) :
                 blocks[k].file = blocks[l].file => k = l
           /\ \A i \in 1..Len(allMatches) : \E k \in 1..Len(blocks) :
                 /\ blocks[k].file = allMatches[i].filePath
                 /\ Cardinality({j \in 1..Len(blocks[k].lines) :
                        blocks[k].lines[j] = Printed(allMatches[i])})
                    = Cardinality({j \in 1..Len(allMatches) :
                        /\ allMatches[j].filePath = allMatches[i].filePath
                        /\ Printed(allMatches[j]) = Printed(allMatches[i])})
           /\ ReportedLines(response) = Len(allMatches)

\* C16 witness: the first target contributed line 3 of a file, the second
\* target its line 1, and the report prints them under that file as line 1
\* and line 3.
C16_Witness ==
    /\ pc = "done"
    /\ response.kind = "found"
    /\ Len(spawnLog) = 2
    /\ spawnLog[2].count = 1
    /\ Len(allMatches) = 2
    /\ allMatches[1].filePath = allMatches[2].filePath
    /\ allMatches[1].lineNumber = 3
    /\ allMatches[2].lineNumber = 1
    /\ Len(response.llmContent.blocks) = 1
    /\ response.llmContent.blocks[1].lines[1].lineNumber = 1
    /\ response.llmContent.blocks[1].lines[2].lineNumber = 3

\* C17 (as claimed): the blocks of a report are in the order in which their
\* files first occur in the retained matches.
C17_FirstSeenFileOrder ==
    (pc = "done" /\ response.kind = "found")
    => BlockFiles(response) = FirstSeen(allMatches, {})

\* The place of the pattern in an argument list: after `--regexp`.
PatternSlot(args) == 1 + CHOOSE i \in 1..Len(args) : args[i] = "--regexp"

\* The glob filters of an argument list: the values that follow `--glob`
\* after the pattern.
GlobFilters(args) ==
    {args[i + 1] : i \in {j \in (PatternSlot(args) + 1)..(Len(args) - 1) :
                             args[j] = "--glob"}}

\* C18: the matcher of a single-file target is spawned without any glob
\* filter; the matcher of a directory target is spawned with every fixed
\* negative filter, and with the include glob iff the request gives one.
C18_SingleFileIgnoresGlobs ==
    pc = "awaiting"
    => LET args == children[Len(children)].args
       IN  IF isFile
           THEN /\ GlobFilters(args) = {}
                /\ \A i \in (PatternSlot(args) + 1)..Len(args) :
                      args[i] # "--glob"
           ELSE /\ \A i \in 1..Len(Excludes) : Excludes[i] \in GlobFilters(args)
                /\ (params.include # NoInclude
                    <=> params.include \in GlobFilters(args))
                /\ GlobFilters(args)
                   \subseteq {Excludes[i] : i \in 1..Len(Excludes)}
                             \cup ({params.include} \ {NoInclude})

\* C18 witness: a request with an include glob whose scope path is a single
\* file awaits its matcher.
C18_Witness ==
    /\ pc = "awaiting"
    /\ isFile
    /\ params.include # NoInclude
    /\ children[Len(children)].state = "running"
    /\ GlobFilters(children[Len(children)].args) = {}

\* C19: when the search of a target fails, the request returns an error
\* result that prints no match, whatever earlier targets contributed.
C19_AllOrNothing ==
    failure \in {"stat", "unavailable", "launch", "exit", "cancel"}
    => /\ pc = "done"
       /\ IsErrorResult(response)
       /\ response.llmContent.blocks = <<>>
       /\ ReportedLines(response) = 0
       /\ ~Contains(response.returnDisplay, <<"Found ">>)

\* C19 witness: the first target contributed matches, the matcher of the
\* second exited with status 2, and the request returned the error result.
C19_Witness ==
    /\ pc = "done"
    /\ failure = "exit"
    /\ Len(children) = 2
    /\ ~children[2].killed
    /\ allMatches # <<>>
    /\ IsErrorResult(response)
    /\ response.llmContent.blocks = <<>>

\* The current matcher process has not completed: it can still exit, fail to
\* start, or close.
matcherPending ==
    /\ pc = "awaiting"
    /\ children[Len(children)].promise = "pending"
    /\ children[Len(children)].state # "closed"
    /\ ENABLED (child_exit \/ child_error \/ child_close)

\* C20: every request eventually returns and has then returned exactly one
\* response; a request that has not returned can always take its next step,
\* unless it awaits the completion of the current matcher process.
C20_Termination ==
    /\ <>[](pc = "done" /\ returned = 1 /\ response # NoResponse)
    /\ [](returned <= 1)
    /\ [](pc # "done" => (ENABLED execute_step \/ resumable \/ matcherPending))

\* C20 witness: a request over three targets has returned its one response
\* after the third matcher process closed.
C20_Witness ==
    /\ pc = "done"
    /\ returned = 1
    /\ response # NoResponse
    /\ Len(children) = 3
    /\ \A i \in 1..3 : children[i].state = "closed"

====
